---- MODULE Spec2Model ----
\* Model of azure_kinect_video_player: the AzureKinectPlaybackWrapper session
\* (start / grab_frame generator / stop / __del__) over its ffmpeg decode
\* processes and the wall clock, and the playback loop of app_main.
EXTENDS Integers, Sequences, FiniteSets, TLC

\* ---------------------------------------------------------------- bounds
MaxTime == 4          \* the wall clock runs over 0..MaxTime
MaxFrames == 3        \* a decode process emits at most this many whole frames
MaxStarts == 2        \* start() spawns decode processes at most this many times
MaxReadDelay == 1     \* a blocking read lasts 0..MaxReadDelay clock units
MaxOversleep == 1     \* time.sleep() returns 0..MaxOversleep units late
MaxTicks == 6         \* cap on the frame counter

\* ------------------------------------------------------- program constants
Width == 1            \* streams[i]["width"] of the modelled recording
Height == 1           \* streams[i]["height"] of the modelled recording

Colour == 1
Depth == 2
Ir == 3
Channels == {Colour, Depth, Ir}
\* None where a number or a frame index is expected
None == 0 - 1

\* self._procs = None
NoProcs == <<>>

\* self._colour_byte_size, self._depth_byte_size, self._ir_byte_size
ByteSize(c) == IF c = Colour THEN Width * Height * 3 ELSE Width * Height * 2

VARIABLES
    run,             \* [Channels -> BOOLEAN]: self._run_rgb, _run_depth, _run_ir
    realtime_wait,   \* self._realtime_wait
    frame_rate,      \* self._frame_rate
    ready_to_start,  \* self._ready_to_start
    procs,           \* self._procs: None, or per channel a process id (0 for None)
    start_time,      \* self._start_time (None before the first start())
    current_frame,   \* self._current_frame
    popen,           \* every subprocess.Popen made so far, by process id
    now,             \* time.time()
    gen,             \* the grab_frame() generator object: position of its frame
    data,            \* colour_data, depth_data, ir_data of the generator frame
    out,             \* how the last next() on the generator ended (yield, stop:
                     \* StopIteration, or the exception), the tuple last
                     \* yielded to the caller, and the value it returned
    last_number,     \* get_current_frame_number() at the latest yield
    nyield,          \* tuples yielded since the last start()
    faults,          \* times the "not the correct size" error was printed
    starts,          \* times start() spawned decode processes
    alive,           \* FALSE once __del__ has run
    pc,              \* position of app_main ("api": session driven by a free caller)
    app              \* the arguments and local variables of app_main

vars == <<run, realtime_wait, frame_rate, ready_to_start, procs, start_time,
          current_frame, popen, now, gen, data, out, nyield, faults, starts,
          alive, pc, app, last_number>>

\* The constructor arguments kept by the session
cfg == <<run, realtime_wait, frame_rate>>

\* --------------------------------------------------------------- helpers
\* r_frame_rate strings "n/d" of the modelled recordings
RFrameRates == {<<1, 1>>, <<2, 1>>}

\* float(r_frame_rate.split("/")[0])
FrameRateOf(r) == r[1]

\* Clock units per second of time.time(): the coarsest clock on which every
\* i / frame_rate of the modelled recordings is a whole number of units
TicksPerSecond ==
    CHOOSE k \in 1..64 :
        /\ \A r \in RFrameRates : k % FrameRateOf(r) = 0
        /\ \A j \in 1..(k - 1) : \E r \in RFrameRates : j % FrameRateOf(r) # 0

\* self._start_time + (self._current_frame / self._frame_rate), in clock units
NextFrameTime(st, cf, fr) == st + (cf * TicksPerSecond) \div fr

\* A buffer that is None (channel not run), and the all-None tuple
NoBuffer == [len |-> None, frame |-> None]

NoData == [c \in Channels |-> NoBuffer]

AllNone == [c \in Channels |-> None]

\* colour_image, depth_image, ir_image of the caller before the first yield
Unbound == [c \in Channels |-> 0 - 2]

\* Nothing came out of the generator yet
NoOut == [kind |-> "none", item |-> Unbound, ret |-> Unbound]

\* A process as subprocess.Popen leaves it: nothing read, stdout open, running
NewProc(c) == [chan |-> c, pos |-> 0, eof |-> FALSE, closes |-> 0, kills |-> 0]

\* app_main is not running: the session is driven by a free caller
NoApp ==
    [save_video |-> FALSE, args |-> <<None, None, None, None>>,
     visualisation_depth_min_max |-> <<None, None>>,
     visualisation_ir_min_max |-> <<None, None>>,
     calculated_depth_min_max |-> <<None, None>>,
     calculated_ir_min_max |-> <<None, None>>,
     video_writer |-> "None", written |-> 0, exc |-> "None"]

TypeOK ==
    /\ run \in [Channels -> BOOLEAN]
    /\ realtime_wait \in BOOLEAN
    /\ ready_to_start \in BOOLEAN
    /\ DOMAIN procs \subseteq Channels
    /\ \A c \in DOMAIN procs : procs[c] \in 0..Len(popen)
    /\ start_time \in {None} \cup 0..MaxTime
    /\ current_frame \in 0..MaxTicks
    /\ now \in 0..MaxTime
    /\ gen \in {"none", "created", "suspended", "skipping", "done"}
    /\ alive \in BOOLEAN

Init ==
    /\ run \in [Channels -> BOOLEAN]
    /\ realtime_wait \in BOOLEAN
    /\ frame_rate \in {FrameRateOf(r) : r \in RFrameRates}
    /\ ready_to_start = TRUE
    /\ procs = NoProcs
    /\ start_time = None
    /\ current_frame = 0
    /\ popen = <<>>
    /\ now = 0
    /\ gen = "none"
    /\ data = NoData
    /\ out = NoOut
    /\ nyield = 0
    /\ faults = 0
    /\ starts = 0
    /\ alive = TRUE
    /\ pc = "api"
    /\ app = NoApp
    /\ last_number = None

\* ------------------------------------------------ AzureKinectPlaybackWrapper
\* The channels start() spawns a decode process for, in spawn order
Enabled == {c \in Channels : run[c]}

\* Process id that the Popen for channel c gets when n processes exist already
SpawnId(n, c) == IF run[c] THEN n + Cardinality({d \in Enabled : d <= c}) ELSE 0

\* Channel of the k-th process spawned by one start()
SpawnChan(k) == CHOOSE c \in Enabled : Cardinality({d \in Enabled : d <= c}) = k

\* start() that forgets to set the frame counter back to 0
StartNoReset ==
    IF ready_to_start
    THEN /\ starts < MaxStarts
         /\ popen' = popen \o [k \in 1..Cardinality(Enabled) |-> NewProc(SpawnChan(k))]
         /\ procs' = [c \in Channels |-> SpawnId(Len(popen), c)]
         /\ ready_to_start' = FALSE
         /\ start_time' = now
         /\ nyield' = 0
         /\ starts' = starts + 1
         /\ UNCHANGED current_frame
    ELSE UNCHANGED <<popen, procs, ready_to_start, start_time, current_frame,
                     nyield, starts>>

\* start(): spawn one decode process per enabled channel, take the time
Start ==
    IF ready_to_start
    THEN /\ starts < MaxStarts
         /\ popen' = popen \o [k \in 1..Cardinality(Enabled) |-> NewProc(SpawnChan(k))]
         /\ procs' = [c \in Channels |-> SpawnId(Len(popen), c)]
         /\ ready_to_start' = FALSE
         /\ start_time' = now
         /\ current_frame' = 0
         /\ nyield' = 0
         /\ starts' = starts + 1
    ELSE UNCHANGED <<popen, procs, ready_to_start, start_time, current_frame,
                     nyield, starts>>

\* start() in which the Popen for the enabled channel k raises: the processes
\* of the channels before k are spawned and appended to self._procs, and
\* nothing after the failing call runs
StartFails(k) ==
    /\ ready_to_start
    /\ starts < MaxStarts
    /\ run[k]
    /\ popen' = popen \o [j \in 1..Cardinality({d \in Enabled : d < k}) |->
                              NewProc(SpawnChan(j))]
    /\ procs' = [c \in 1..(k - 1) |-> SpawnId(Len(popen), c)]
    /\ starts' = starts + 1
    /\ UNCHANGED <<ready_to_start, start_time, current_frame, nyield>>

\* The loop of stop(): proc.stdout.close() and proc.kill() on every process
\* of self._procs that is not None. The pipe of a killed process is gone:
\* nothing is left to read from it
CloseAndKill(po, pr) ==
    [i \in DOMAIN po |->
        IF \E c \in Channels : pr[c] = i
        THEN [po[i] EXCEPT !.closes = @ + 1, !.kills = @ + 1, !.pos = 0, !.eof = TRUE]
        ELSE po[i]]

\* stop() without the check that start() has been called
StopPopenUnguarded(rts, po, pr) == CloseAndKill(po, pr)

\* popen after stop() was called with the flag rts
StopPopen(rts, po, pr) == IF rts THEN po ELSE CloseAndKill(po, pr)

\* stop(): nothing unless started; close and kill, then ready to start again
Stop ==
    /\ popen' = StopPopen(ready_to_start, popen, procs)
    /\ ready_to_start' = TRUE

\* ------------------------------------------------------------ read_frame
\* Enabled channels on which read_frame raises: self._procs has no entry
\* for the channel (IndexError), or the stdout of its process is closed
\* (ValueError)
ClosedChans ==
    {c \in Enabled : c \notin DOMAIN procs \/ popen[procs[c]].closes > 0}

\* The exception read_frame raises on the first such channel
ReadError ==
    IF \E c \in ClosedChans : c \notin DOMAIN procs /\ \A k \in ClosedChans : c <= k
    THEN "IndexError" ELSE "ValueError"

\* read_frame reads colour, depth, ir in this order up to the first raise
ReadChans == {c \in Enabled : \A k \in ClosedChans : c < k}

\* Lengths proc.stdout.read(size) can return on channel c: a whole frame
\* while the process still has frames, fewer bytes at the end of its output,
\* and nothing after the end was seen once
ReadLens(c) ==
    LET p == popen[procs[c]]
    IN  IF p.eof THEN {0}
        ELSE (0..(ByteSize(c) - 1)) \cup
             (IF p.pos < MaxFrames THEN {ByteSize(c)} ELSE {})

LenChoices ==
    {l \in [Channels -> 0..(Width * Height * 3)] :
        \A c \in Channels : IF c \in ReadChans THEN l[c] \in ReadLens(c) ELSE l[c] = 0}

\* The processes after read_frame returned buffers of the lengths l
PopenAfterRead(l) ==
    [i \in DOMAIN popen |->
        IF \E c \in ReadChans : procs[c] = i
        THEN LET c == popen[i].chan
             IN  IF l[c] = ByteSize(c)
                 THEN [popen[i] EXCEPT !.pos = @ + 1]
                 ELSE [popen[i] EXCEPT !.eof = TRUE]
        ELSE popen[i]]

\* colour_data, depth_data, ir_data: the buffer length and the frame it holds
DataAfterRead(l) ==
    [c \in Channels |->
        IF run[c] THEN [len |-> l[c], frame |-> popen[procs[c]].pos] ELSE NoBuffer]

\* The size check with the depth and IR conditions left out
MismatchColourOnly(d) == run[Colour] /\ d[Colour].len # ByteSize(Colour)

\* The size check with an empty buffer let through
MismatchShortOnly(d) ==
    \E c \in Channels : run[c] /\ d[c].len # ByteSize(c) /\ d[c].len # 0

\* The size check of grab_frame on the buffers d
Mismatch(d) == \E c \in Channels : run[c] /\ d[c].len # ByteSize(c)

\* The tuple made from the buffers of the read before
YieldTupleStale(d) == [c \in Channels |-> IF run[c] THEN data[c].frame ELSE None]

\* The tuple grab_frame yields from the buffers d: per channel a frame or None
YieldTuple(d) == [c \in Channels |-> IF run[c] THEN d[c].frame ELSE None]

\* What the caller of next() resumes with, see app_main
Resume(kind) ==
    IF pc = "api" THEN "api"
    ELSE IF kind = "yield" THEN "body"
    ELSE IF kind = "stop" THEN "after"
    ELSE "raised"

\* ------------------------------------------------------------ grab_frame
\* The frame counter left as it is
NextCounterStuck(cf) == cf

\* self._current_frame += 1
NextCounter(cf) == cf + 1

\* The loop condition with >= for >
BehindOrEqual(t, st, cf, fr) == t >= NextFrameTime(st, cf, fr)

\* while current_time > next_frame_time
Behind(t, st, cf, fr) == t > NextFrameTime(st, cf, fr)

\* next() may run the generator frame: it exists, is not finished, and its
\* first next() falls through the _ready_to_start check
CanTick ==
    /\ alive
    /\ pc \in {"api", "for"}
    /\ gen \in {"created", "suspended"}
    /\ gen = "created" => ~ready_to_start
    /\ current_frame < MaxTicks

\* One read_frame() at clock t lasting d, the counter increment, and then
\* either another round of the catch-up loop, or the size check and the
\* yield / break, stop(), return
ReadStep(t, d, l, catchup) ==
    /\ t + d <= MaxTime
    /\ now' = t + d
    /\ popen' = IF ClosedChans # {} \/ ~Mismatch(DataAfterRead(l))
                   \/ (catchup /\ Behind(t + d, start_time, NextCounter(current_frame), frame_rate))
                THEN PopenAfterRead(l)
                ELSE StopPopen(ready_to_start, PopenAfterRead(l), procs)
    /\ IF ClosedChans # {}
       THEN \* ValueError: read of closed file
            /\ gen' = "done"
            /\ out' = [out EXCEPT !.kind = ReadError]
            /\ pc' = Resume("raise")
            /\ UNCHANGED <<data, current_frame, nyield, faults, ready_to_start, last_number>>
       ELSE /\ data' = DataAfterRead(l)
            /\ current_frame' = NextCounter(current_frame)
            /\ IF catchup /\ Behind(t + d, start_time, NextCounter(current_frame), frame_rate)
               THEN /\ gen' = "skipping"
                    /\ UNCHANGED <<out, nyield, faults, ready_to_start, pc, last_number>>
               ELSE IF Mismatch(DataAfterRead(l))
               THEN /\ faults' = faults + 1
                    /\ ready_to_start' = TRUE
                    /\ gen' = "done"
                    /\ out' = [out EXCEPT !.kind = "stop", !.ret = AllNone]
                    /\ pc' = Resume("stop")
                    /\ UNCHANGED <<nyield, last_number>>
               ELSE /\ gen' = "suspended"
                    /\ out' = [out EXCEPT !.kind = "yield", !.item = YieldTuple(DataAfterRead(l))]
                    /\ last_number' = NextCounter(current_frame)
                    /\ nyield' = nyield + 1
                    /\ pc' = Resume("yield")
                    /\ UNCHANGED <<faults, ready_to_start>>
    /\ UNCHANGED <<cfg, app, procs, start_time, starts, alive>>

\* The first next() of a generator made before start(): RuntimeError
TickNotStarted ==
    /\ alive
    /\ pc \in {"api", "for"}
    /\ gen = "created"
    /\ ready_to_start
    /\ gen' = "done"
    /\ out' = [out EXCEPT !.kind = "RuntimeError"]
    /\ pc' = Resume("raise")
    /\ UNCHANGED <<cfg, app, last_number, ready_to_start, procs, start_time,
                   current_frame, popen, now, data, nyield, faults, starts, alive>>

\* The non-realtime read run through the catch-up loop
TickPlainCatchUp ==
    /\ CanTick
    /\ ~realtime_wait
    /\ \E d \in 0..MaxReadDelay, l \in LenChoices : ReadStep(now, d, l, TRUE)

\* realtime_wait False: read the next frame
TickPlain ==
    /\ CanTick
    /\ ~realtime_wait
    /\ \E d \in 0..MaxReadDelay, l \in LenChoices : ReadStep(now, d, l, FALSE)

\* The wait branch without the time.sleep
TickWaitNoSleep ==
    /\ CanTick
    /\ realtime_wait
    /\ now < NextFrameTime(start_time, current_frame, frame_rate)
    /\ \E d \in 0..MaxReadDelay, l \in LenChoices : ReadStep(now, d, l, FALSE)

\* current_time < next_frame_time: sleep, then read
TickWait ==
    /\ CanTick
    /\ realtime_wait
    /\ now < NextFrameTime(start_time, current_frame, frame_rate)
    /\ \E o \in 0..MaxOversleep, d \in 0..MaxReadDelay, l \in LenChoices :
          ReadStep(NextFrameTime(start_time, current_frame, frame_rate) + o, d, l, FALSE)

\* current_time = next_frame_time: read
TickExact ==
    /\ CanTick
    /\ realtime_wait
    /\ now = NextFrameTime(start_time, current_frame, frame_rate)
    /\ \E d \in 0..MaxReadDelay, l \in LenChoices : ReadStep(now, d, l, FALSE)

\* current_time > next_frame_time: the first round of the catch-up loop
TickSkip ==
    /\ CanTick
    /\ realtime_wait
    /\ Behind(now, start_time, current_frame, frame_rate)
    /\ \E d \in 0..MaxReadDelay, l \in LenChoices : ReadStep(now, d, l, TRUE)

\* A further round of the catch-up loop
SkipMore ==
    /\ gen = "skipping"
    /\ current_frame < MaxTicks
    /\ \E d \in 0..MaxReadDelay, l \in LenChoices : ReadStep(now, d, l, TRUE)

\* ------------------------------------------------- a caller of the session
\* The caller is between two calls: no generator frame is running
Idle == alive /\ pc = "api" /\ gen # "skipping"

\* playback_wrapper.start()
CallStart ==
    /\ Idle
    /\ Start
    /\ UNCHANGED <<cfg, app, last_number, now, gen, data, out, faults, alive, pc>>

\* playback_wrapper.stop()
CallStop ==
    /\ Idle
    /\ Stop
    /\ UNCHANGED <<cfg, app, last_number, procs, start_time, current_frame,
                   now, gen, data, out, nyield, faults, starts, alive, pc>>

\* playback_wrapper.grab_frame(): a new generator object, no code of it runs yet
CallGrabFrame ==
    /\ Idle
    /\ gen' = "created"
    /\ data' = NoData
    /\ out' = NoOut
    /\ UNCHANGED <<cfg, app, last_number, ready_to_start, procs, start_time,
                   current_frame, popen, now, nyield, faults, starts, alive, pc>>

\* __del__: stop(), and the object is gone
Del ==
    /\ Idle
    /\ Stop
    /\ alive' = FALSE
    /\ UNCHANGED <<cfg, app, last_number, procs, start_time, current_frame,
                   now, gen, data, out, nyield, faults, starts, pc>>

\* Time passes in the caller between two calls
Advance ==
    /\ alive
    /\ gen # "skipping"
    /\ pc \in {"api", "main", "for"}
    /\ now < MaxTime
    /\ now' = now + 1
    /\ UNCHANGED <<cfg, app, last_number, ready_to_start, procs, start_time,
                   current_frame, popen, gen, data, out, nyield, faults, starts, alive, pc>>

\* playback_wrapper.start() raising out of a Popen
CallStartFails ==
    /\ Idle
    /\ \E k \in Channels : StartFails(k)
    /\ UNCHANGED <<cfg, app, last_number, now, gen, data, out, faults, alive, pc>>

Next ==
    \/ CallStart
    \/ CallStop
    \/ CallGrabFrame
    \/ Del
    \/ Advance
    \/ TickNotStarted
    \/ TickPlain
    \/ TickWait
    \/ TickExact
    \/ TickSkip
    \/ SkipMore

Spec == Init /\ [][Next]_vars

\* The session with a caller, and Popen free to fail
NextSpawn ==
    \/ Next
    \/ CallStartFails

SpecSpawn == Init /\ [][NextSpawn]_vars

\* ------------------------------------------------------------- app_main
\* <<--depth-min, --depth-max, --ir-min, --ir-max>> of the modelled runs
ArgChoices ==
    {<<None, None, None, None>>, <<1, 1, None, None>>,
     <<None, 1, None, None>>, <<None, None, 1, 2>>}

\* (numpy.min(image), numpy.max(image)) of the modelled depth and IR frames
Extremes == {<<0, 0>>, <<0, 2>>, <<2, 2>>}

\* AzureKinectPlaybackWrapper defines no get_frame_rate
HasGetFrameRate == FALSE

\* The extremes of the current image alone
update_min_max_current(img, min_max) == img

\* update_min_max on an image with the extremes img
update_min_max(img, min_max) ==
    LET m1 == IF img[1] < min_max[1] THEN <<img[1], min_max[2]>> ELSE min_max
    IN  IF img[2] > m1[2] THEN <<m1[1], img[2]>> ELSE m1

update_visual_min_max(calculated_min_max, min_max, determine_min, determine_max) ==
    LET m1 == IF determine_min /\ calculated_min_max[1] # min_max[1]
              THEN <<calculated_min_max[1], min_max[2]>> ELSE min_max
    IN  IF determine_max /\ calculated_min_max[2] # m1[2]
        THEN <<m1[1], calculated_min_max[2]>> ELSE m1

\* The bounds checks without the check of lower_bound >= upper_bound
MapRaisesRangeOnly(lower_bound, upper_bound) ==
    \/ ~(0 <= lower_bound /\ lower_bound < 2^16)
    \/ ~(0 <= upper_bound /\ upper_bound < 2^16)

\* map_uint16_to_uint8 raises ValueError on these bounds
MapRaises(lower_bound, upper_bound) ==
    \/ ~(0 <= lower_bound /\ lower_bound < 2^16)
    \/ ~(0 <= upper_bound /\ upper_bound < 2^16)
    \/ lower_bound >= upper_bound

\* combine_images raises ValueError on the tuple t with these windows
CombineRaises(t, depth_min_max, ir_min_max) ==
    LET rgb == t[Colour] # None
        depth == t[Depth] # None
        ir == t[Ir] # None
    IN  IF ~rgb /\ ~depth /\ ~ir THEN TRUE
        ELSE IF rgb /\ depth /\ ir
        THEN MapRaises(depth_min_max[1], depth_min_max[2])
             \/ MapRaises(ir_min_max[1], ir_min_max[2])
        ELSE IF rgb /\ (depth \/ ir)
        THEN IF depth THEN MapRaises(depth_min_max[1], depth_min_max[2])
             ELSE MapRaises(ir_min_max[1], ir_min_max[2])
        ELSE IF depth /\ ir
        THEN MapRaises(depth_min_max[1], depth_min_max[2])
             \/ MapRaises(ir_min_max[1], ir_min_max[2])
        ELSE FALSE

\* app_main up to the try: the wrapper was made with auto_start=False
InitApp ==
    /\ run \in [Channels -> BOOLEAN]
    /\ realtime_wait \in BOOLEAN
    /\ frame_rate \in {FrameRateOf(r) : r \in RFrameRates}
    /\ ready_to_start = TRUE
    /\ procs = NoProcs
    /\ start_time = None
    /\ current_frame = 0
    /\ popen = <<>>
    /\ now = 0
    /\ gen = "none"
    /\ data = NoData
    /\ out = NoOut
    /\ nyield = 0
    /\ faults = 0
    /\ starts = 0
    /\ alive = TRUE
    /\ pc = "main"
    /\ \E sv \in BOOLEAN, a \in ArgChoices :
          app = [NoApp EXCEPT !.save_video = sv, !.args = a]
    /\ last_number = None

\* playback_wrapper.start(), the min/max set-up, and the for statement
\* calling grab_frame()
AppStart ==
    /\ pc = "main"
    /\ Start
    /\ app' = [app EXCEPT
                 !.visualisation_depth_min_max =
                     <<IF app.args[1] = None THEN 0 ELSE app.args[1],
                       IF app.args[2] = None THEN 65535 ELSE app.args[2]>>,
                 !.visualisation_ir_min_max =
                     <<IF app.args[3] = None THEN 0 ELSE app.args[3],
                       IF app.args[4] = None THEN 65535 ELSE app.args[4]>>,
                 !.calculated_depth_min_max = <<65535, 0>>,
                 !.calculated_ir_min_max = <<65535, 0>>]
    /\ gen' = "created"
    /\ pc' = "for"
    /\ UNCHANGED <<cfg, last_number, now, data, out, faults, alive>>

\* The body of the for loop on the tuple the generator yielded, with the
\* extremes de, ie of its depth and IR images and the key of cv2.waitKey
AppBody ==
    /\ pc = "body"
    /\ \E de \in Extremes, ie \in Extremes, quit \in BOOLEAN :
         LET t == out.item
             cd == IF t[Depth] # None
                   THEN update_min_max(de, app.calculated_depth_min_max)
                   ELSE app.calculated_depth_min_max
             vd == IF t[Depth] # None
                   THEN update_visual_min_max(cd, app.visualisation_depth_min_max,
                                              app.args[1] = None, app.args[2] = None)
                   ELSE app.visualisation_depth_min_max
             ci == IF t[Ir] # None
                   THEN update_min_max(ie, app.calculated_ir_min_max)
                   ELSE app.calculated_ir_min_max
             vi == IF t[Ir] # None
                   THEN update_visual_min_max(ci, app.visualisation_ir_min_max,
                                              app.args[3] = None, app.args[4] = None)
                   ELSE app.visualisation_ir_min_max
             upd == [app EXCEPT !.calculated_depth_min_max = cd,
                                !.visualisation_depth_min_max = vd,
                                !.calculated_ir_min_max = ci,
                                !.visualisation_ir_min_max = vi]
         IN  IF /\ app.save_video
                /\ app.video_writer = "None"
                /\ (~HasGetFrameRate \/ t = AllNone)
             THEN \* AttributeError: the wrapper has no attribute
                  \* 'get_frame_rate'; None has no attribute 'shape'
                  /\ app' = [app EXCEPT !.exc = "AttributeError"]
                  /\ pc' = "raised"
             ELSE IF t = AllNone
             THEN /\ app' = app
                  /\ pc' = "after"
             ELSE IF CombineRaises(t, vd, vi)
             THEN /\ app' = [upd EXCEPT !.exc = "ValueError"]
                  /\ pc' = "raised"
             ELSE /\ app' = [upd EXCEPT
                               !.video_writer =
                                   IF app.save_video /\ @ = "None" THEN "open" ELSE @,
                               !.written = IF app.save_video THEN @ + 1 ELSE @]
                  /\ pc' = IF quit THEN "after" ELSE "for"
    /\ UNCHANGED <<cfg, last_number, ready_to_start, procs, start_time, current_frame,
                   popen, now, gen, data, out, nyield, faults, starts, alive>>

\* Ctrl-C inside the try: in the loop body, or inside the generator frame,
\* which it then ends
KeyboardInterrupt ==
    /\ pc \in {"for", "body"}
    /\ gen' \in (IF gen = "skipping" THEN {"done"}
                 ELSE IF pc = "for" THEN {gen, "done"} ELSE {gen})
    /\ pc' = "after"
    /\ UNCHANGED <<cfg, app, last_number, ready_to_start, procs, start_time, current_frame, popen,
                   now, data, out, nyield, faults, starts, alive>>

\* After the try: close the video writer, playback_wrapper.stop(), return 0
AppAfter ==
    /\ pc = "after"
    /\ gen # "skipping"
    /\ Stop
    /\ app' = [app EXCEPT !.video_writer = IF @ = "open" THEN "closed" ELSE @]
    /\ pc' = "returned"
    /\ UNCHANGED <<cfg, last_number, procs, start_time, current_frame, now, gen, data,
                   out, nyield, faults, starts, alive>>

NextApp ==
    \/ AppStart
    \/ Advance
    \/ TickPlain
    \/ TickWait
    \/ TickExact
    \/ TickSkip
    \/ SkipMore
    \/ AppBody
    \/ KeyboardInterrupt
    \/ AppAfter

SpecApp == InitApp /\ [][NextApp]_vars

\* ------------------------------------------------------------- r_frame_rate
\* Largest denominator of the r_frame_rate strings ffprobe reports
MaxDenominator == 2

\* r_frame_rate strings "n/d" with the rates above as numerators
RFrameRateStrings ==
    {<<FrameRateOf(r), d>> : r \in RFrameRates, d \in 1..MaxDenominator}

\* __init__ on a recording with all three channels run, from its r_frame_rate
InitRate ==
    /\ run = [c \in Channels |-> TRUE]
    /\ realtime_wait \in BOOLEAN
    /\ \E r \in RFrameRateStrings :
          /\ frame_rate = FrameRateOf(r)
          /\ app = [r_frame_rate |-> r]
    /\ ready_to_start = TRUE
    /\ procs = NoProcs
    /\ start_time = None
    /\ current_frame = 0
    /\ popen = <<>>
    /\ now = 0
    /\ gen = "none"
    /\ data = NoData
    /\ out = NoOut
    /\ nyield = 0
    /\ faults = 0
    /\ starts = 0
    /\ alive = TRUE
    /\ pc = "api"
    /\ last_number = None

SpecRate == InitRate /\ [][Next]_vars

\* ------------------------------------- combine_images, initialise_video_writer
\* Largest width and height of the modelled images
MaxDim == 3

Max(a, b) == IF a > b THEN a ELSE b

\* A numpy image: where it comes from, shape[1], shape[0], the channels per
\* pixel and the bits per sample. The wrapper yields colour as uint8 with 3
\* channels and depth and IR as uint16 with one
Image(src, w, h) ==
    [src |-> src, w |-> w, h |-> h,
     ch |-> IF src = "rgb" THEN 3 ELSE 1,
     bits |-> IF src = "rgb" THEN 8 ELSE 16]

\* None in place of an image
NoImage == [src |-> "None", w |-> 0, h |-> 0, ch |-> 0, bits |-> 0]

\* No image: the call raised
RaisedImage == [src |-> "ValueError", w |-> 0, h |-> 0, ch |-> 0, bits |-> 0]

\* No image or resolution yet: the call has not been made
PendingImage == [src |-> "pending", w |-> 0, h |-> 0, ch |-> 0, bits |-> 0]

PendingResolution == <<0 - 2, 0 - 2>>

\* used_image.shape on None: AttributeError
RaisedResolution == <<None, None>>

\* numpy.zeros((h, w, 3), dtype=numpy.uint8) with images copied into it
Canvas(w, h) == [src |-> "canvas", w |-> w, h |-> h, ch |-> 3, bits |-> 8]

\* len(frame.tobytes())
ImageBytes(img) == img.w * img.h * img.ch * (img.bits \div 8)

\* map_uint16_to_uint8 on an image: as many samples, of 8 bits
MapImage(img, min_max) ==
    IF MapRaises(min_max[1], min_max[2]) THEN RaisedImage
    ELSE [img EXCEPT !.bits = 8]

\* cv2.cvtColor(img, cv2.COLOR_GRAY2BGR)
Gray2Bgr(img) == IF img = RaisedImage THEN img ELSE [img EXCEPT !.ch = 3]

\* image[a:b, c:d] = src with b - a target rows: numpy copies when the source
\* has as many rows, repeats a source of one row, and raises otherwise
Broadcastable(src_h, dst_h) == src_h = dst_h \/ src_h = 1

\* The single image normalised to 8 bits before it is returned
SingleImageNormalised(img, min_max) ==
    IF img.bits = 16 THEN MapImage(img, min_max) ELSE img

\* "Otherwise (should only be one image), return that image": the copy
SingleImage(img, min_max) == img

combine_images(rgb, depth, ir, depth_min_max, ir_min_max) ==
    LET d == Gray2Bgr(MapImage(depth, depth_min_max))
        i == Gray2Bgr(MapImage(ir, ir_min_max))
    IN  IF rgb = NoImage /\ depth = NoImage /\ ir = NoImage THEN RaisedImage
        ELSE IF rgb # NoImage /\ depth # NoImage /\ ir # NoImage
        THEN IF d = RaisedImage \/ i = RaisedImage \/ ~Broadcastable(i.h, d.h)
             THEN RaisedImage
             ELSE Canvas(Max(rgb.w, d.w + i.w), rgb.h + d.h)
        ELSE IF rgb # NoImage /\ (depth # NoImage \/ ir # NoImage)
        THEN LET used_image == IF depth # NoImage THEN d ELSE i
             IN  IF used_image = RaisedImage THEN RaisedImage
                 ELSE Canvas(Max(rgb.w, used_image.w), rgb.h + used_image.h)
        ELSE IF depth # NoImage /\ ir # NoImage
        THEN IF d = RaisedImage \/ i = RaisedImage \/ ~Broadcastable(i.h, d.h)
             THEN RaisedImage
             ELSE Canvas(d.w + i.w, d.h)
        ELSE IF rgb # NoImage THEN SingleImage(rgb, <<0, 65535>>)
        ELSE IF depth # NoImage THEN SingleImage(depth, depth_min_max)
        ELSE SingleImage(ir, ir_min_max)

\* The resolution initialise_video_writer gives FFMPEGVideoWriter
initialise_video_writer(rgb_image, depth_image, ir_image) ==
    IF rgb_image # NoImage /\ depth_image # NoImage /\ ir_image # NoImage
    THEN <<Max(rgb_image.w, depth_image.w + ir_image.w),
           rgb_image.h + Max(depth_image.h, ir_image.h)>>
    ELSE IF rgb_image # NoImage /\ (depth_image # NoImage \/ ir_image # NoImage)
    THEN LET used_image == IF depth_image # NoImage THEN depth_image ELSE ir_image
         IN  <<rgb_image.w, rgb_image.h + used_image.h>>
    ELSE IF depth_image # NoImage /\ ir_image # NoImage
    THEN <<depth_image.w + ir_image.w, depth_image.h>>
    ELSE LET used_image == IF rgb_image # NoImage THEN rgb_image
                           ELSE IF depth_image # NoImage THEN depth_image
                           ELSE ir_image
         IN  IF used_image = NoImage THEN RaisedResolution
             ELSE <<used_image.w, used_image.h>>

\* The images of one yielded tuple
ImagesOf(src) ==
    {NoImage} \cup {Image(src, w, h) : w \in 1..MaxDim, h \in 1..MaxDim}

\* One tuple of images, about to be composited and to size the video writer
InitCombine ==
    /\ run \in [Channels -> BOOLEAN]
    /\ realtime_wait = FALSE
    /\ frame_rate = 1
    /\ ready_to_start = TRUE
    /\ procs = NoProcs
    /\ start_time = None
    /\ current_frame = 0
    /\ popen = <<>>
    /\ now = 0
    /\ gen = "none"
    /\ data = NoData
    /\ out = NoOut
    /\ nyield = 0
    /\ faults = 0
    /\ starts = 0
    /\ alive = TRUE
    /\ last_number = None
    /\ pc = "compose"
    /\ \E rgb \in ImagesOf("rgb"), depth \in ImagesOf("depth"), ir \in ImagesOf("ir") :
          /\ \A c \in Channels : run[c] = (<<rgb, depth, ir>>[c] # NoImage)
          /\ app = [colour_image |-> rgb, depth_image |-> depth, ir_image |-> ir,
                    depth_min_max |-> <<0, 65535>>, ir_min_max |-> <<0, 65535>>,
                    combined_image |-> PendingImage,
                    resolution |-> PendingResolution]

\* combined_image = combine_images(...)
CallCombineImages ==
    /\ pc = "compose"
    /\ app.combined_image = PendingImage
    /\ app' = [app EXCEPT !.combined_image =
                  combine_images(app.colour_image, app.depth_image, app.ir_image,
                                 app.depth_min_max, app.ir_min_max)]
    /\ UNCHANGED <<cfg, ready_to_start, procs, start_time, current_frame, popen, now,
                   gen, data, out, nyield, faults, starts, alive, pc, last_number>>

\* initialise_video_writer(...) on the same tuple
CallInitialiseVideoWriter ==
    /\ pc = "compose"
    /\ app.resolution = PendingResolution
    /\ app' = [app EXCEPT !.resolution =
                  initialise_video_writer(app.colour_image, app.depth_image,
                                          app.ir_image)]
    /\ UNCHANGED <<cfg, ready_to_start, procs, start_time, current_frame, popen, now,
                   gen, data, out, nyield, faults, starts, alive, pc, last_number>>

NextCombine ==
    \/ CallCombineImages
    \/ CallInitialiseVideoWriter

SpecCombine == InitCombine /\ [][NextCombine]_vars

\* -------------------------------------------------------- map_uint16_to_uint8
\* How far from 0, 256 and 65535 the modelled bounds and samples lie
MaxNear == 2

\* Window bounds and sample values at and around the ends of the 16-bit range
\* and the end of the 8-bit range
NearValues ==
    {v \in 0..(2^16 - 1) :
        \E l \in {0, 256, 2^16 - 1} : v - l <= MaxNear /\ l - v <= MaxNear}

\* Bounds a caller can pass: the above and integers outside the 16-bit range
BoundChoices == NearValues \cup {0 - 1, 2^16, 70000}

\* numpy.linspace(0, 255, n).astype(numpy.uint16)[k]: n = 1 gives [0]
Linspace(k, n) == IF n = 1 THEN 0 ELSE (255 * k) \div (n - 1)

\* The table with its tail of 255 replaced by zeros
LutZeroTail(v, lower_bound, upper_bound) ==
    IF v < lower_bound THEN 0
    ELSE IF v < upper_bound THEN Linspace(v - lower_bound, upper_bound - lower_bound)
    ELSE 0

\* lut[v]: lower_bound zeros, the ramp, then 2**16 - upper_bound times 255
Lut(v, lower_bound, upper_bound) ==
    IF v < lower_bound THEN 0
    ELSE IF v < upper_bound THEN Linspace(v - lower_bound, upper_bound - lower_bound)
    ELSE 255

\* The call has not returned
PendingMap == [kind |-> "pending", px |-> <<>>]

\* map_uint16_to_uint8(image, lower_bound, upper_bound) on an image of samples
map_uint16_to_uint8(image, lower_bound, upper_bound) ==
    IF MapRaises(lower_bound, upper_bound)
    THEN [kind |-> "ValueError", px |-> <<>>]
    ELSE [kind |-> "image",
          px |-> [j \in DOMAIN image |->
                     Lut(image[j], lower_bound, upper_bound) % 2^8]]

\* An image of two samples and a window, about to be normalised
InitScaler ==
    /\ run = [c \in Channels |-> c = Depth]
    /\ realtime_wait = FALSE
    /\ frame_rate = 1
    /\ ready_to_start = TRUE
    /\ procs = NoProcs
    /\ start_time = None
    /\ current_frame = 0
    /\ popen = <<>>
    /\ now = 0
    /\ gen = "none"
    /\ data = NoData
    /\ out = NoOut
    /\ nyield = 0
    /\ faults = 0
    /\ starts = 0
    /\ alive = TRUE
    /\ last_number = None
    /\ pc = "scale"
    /\ \E v1 \in NearValues, v2 \in NearValues,
          lower_bound \in BoundChoices, upper_bound \in BoundChoices :
          app = [image |-> <<v1, v2>>, lower_bound |-> lower_bound,
                 upper_bound |-> upper_bound, mapped |-> PendingMap]

CallMap ==
    /\ pc = "scale"
    /\ app.mapped = PendingMap
    /\ app' = [app EXCEPT !.mapped =
                  map_uint16_to_uint8(app.image, app.lower_bound, app.upper_bound)]
    /\ UNCHANGED <<cfg, ready_to_start, procs, start_time, current_frame, popen, now,
                   gen, data, out, nyield, faults, starts, alive, pc, last_number>>

NextScaler == CallMap

SpecScaler == InitScaler /\ [][NextScaler]_vars

\* ------------------------------------------- a consumer that keeps pulling
\* __init__ on a recording played at one frame per clock unit, so that every
\* frame of it has its nominal time on the modelled clock
InitPull ==
    /\ run \in [Channels -> BOOLEAN]
    /\ realtime_wait \in BOOLEAN
    /\ frame_rate = TicksPerSecond
    /\ ready_to_start = TRUE
    /\ procs = NoProcs
    /\ start_time = None
    /\ current_frame = 0
    /\ popen = <<>>
    /\ now = 0
    /\ gen = "none"
    /\ data = NoData
    /\ out = NoOut
    /\ nyield = 0
    /\ faults = 0
    /\ starts = 0
    /\ alive = TRUE
    /\ pc = "api"
    /\ app = NoApp
    /\ last_number = None

\* wrapper.start(), once
PullStart ==
    /\ starts = 0
    /\ gen = "none"
    /\ CallStart

\* for ... in wrapper.grab_frame(): pass
PullGrabFrame ==
    /\ ~ready_to_start
    /\ gen = "none"
    /\ CallGrabFrame

\* A read from decode processes that have all ended returns b'' at once
EndOfOutputReadAtOnce ==
    (Enabled # {} /\ \A c \in Enabled : popen[procs[c]].eof) => now' = now

PullTickSkip == TickSkip /\ EndOfOutputReadAtOnce

PullSkipMore == SkipMore /\ EndOfOutputReadAtOnce

NextPull ==
    \/ PullStart
    \/ PullGrabFrame
    \/ TickPlain
    \/ TickWait
    \/ TickExact
    \/ PullTickSkip
    \/ PullSkipMore

\* The consumer never stops pulling: the for statement calls next() again
\* after every yield, and a running generator frame goes on
SpecPull == InitPull /\ [][NextPull]_vars /\ WF_vars(NextPull)

\* ------------------------------------------------- windowing in app_main
\* Frames of one channel delivered to the playback loop
MaxSeen == 3

\* Sample values of the modelled depth / IR frames
WindowSamples == {0, 1, 2, 65535}

\* (numpy.min(image), numpy.max(image)) of a frame
WindowExtremes == {e \in WindowSamples \X WindowSamples : e[1] <= e[2]}

\* <<--depth-min, --depth-max>>: none, one or both supplied
WindowArgs == {<<None, None>>, <<1, None>>, <<None, 2>>, <<1, 2>>}

\* app_main before the loop, for one 16-bit channel: the supplied bounds, the
\* determine flags, the visualisation window with None replaced, and the
\* calculated extremes
InitWindow ==
    /\ run = [c \in Channels |-> c = Depth]
    /\ realtime_wait = FALSE
    /\ frame_rate = 1
    /\ ready_to_start = TRUE
    /\ procs = NoProcs
    /\ start_time = None
    /\ current_frame = 0
    /\ popen = <<>>
    /\ now = 0
    /\ gen = "none"
    /\ data = NoData
    /\ out = NoOut
    /\ nyield = 0
    /\ faults = 0
    /\ starts = 0
    /\ alive = TRUE
    /\ last_number = None
    /\ pc = "window"
    /\ \E a \in WindowArgs :
          app = [depth_min |-> a[1], depth_max |-> a[2],
                 determine_depth_min |-> a[1] = None,
                 determine_depth_max |-> a[2] = None,
                 visualisation_depth_min_max |->
                     <<IF a[1] = None THEN 0 ELSE a[1],
                       IF a[2] = None THEN 65535 ELSE a[2]>>,
                 calculated_depth_min_max |-> <<65535, 0>>,
                 seen |-> <<>>]

\* One pass of the loop body over a depth image with the extremes e, up to
\* the window handed to combine_images
WindowFrame ==
    /\ pc = "window"
    /\ Len(app.seen) < MaxSeen
    /\ \E e \in WindowExtremes :
          LET c == update_min_max(e, app.calculated_depth_min_max)
          IN  app' = [app EXCEPT
                        !.calculated_depth_min_max = c,
                        !.visualisation_depth_min_max =
                            update_visual_min_max(c, @, app.determine_depth_min,
                                                  app.determine_depth_max),
                        !.seen = Append(@, e)]
    /\ UNCHANGED <<cfg, ready_to_start, procs, start_time, current_frame, popen, now,
                   gen, data, out, nyield, faults, starts, alive, pc, last_number>>

NextWindow == WindowFrame

SpecWindow == InitWindow /\ [][NextWindow]_vars

\* ------------------------------------------------ start() while Running
\* Calls of start() on a running session that the caller makes
MaxStartCalls == 1

\* __init__ with all three channels run; app counts the calls of start()
\* made while the session was running
InitStartAgain ==
    /\ run = [c \in Channels |-> TRUE]
    /\ realtime_wait \in BOOLEAN
    /\ frame_rate \in {FrameRateOf(r) : r \in RFrameRates}
    /\ ready_to_start = TRUE
    /\ procs = NoProcs
    /\ start_time = None
    /\ current_frame = 0
    /\ popen = <<>>
    /\ now = 0
    /\ gen = "none"
    /\ data = NoData
    /\ out = NoOut
    /\ nyield = 0
    /\ faults = 0
    /\ starts = 0
    /\ alive = TRUE
    /\ pc = "api"
    /\ app = [start_calls |-> 0]
    /\ last_number = None

\* start() on a running session that spawns and resets all the same
StartAgainSpawns ==
    /\ Idle
    /\ ~ready_to_start
    /\ app.start_calls < MaxStartCalls
    /\ starts < MaxStarts
    /\ popen' = popen \o [k \in 1..Cardinality(Enabled) |-> NewProc(SpawnChan(k))]
    /\ procs' = [c \in Channels |-> SpawnId(Len(popen), c)]
    /\ start_time' = now
    /\ current_frame' = 0
    /\ nyield' = 0
    /\ starts' = starts + 1
    /\ app' = [start_calls |-> app.start_calls + 1]
    /\ UNCHANGED <<cfg, ready_to_start, last_number, now, gen, data, out, faults,
                   alive, pc>>

\* playback_wrapper.start() called while the session is running
StartAgain ==
    /\ Idle
    /\ ~ready_to_start
    /\ app.start_calls < MaxStartCalls
    /\ Start
    /\ app' = [start_calls |-> app.start_calls + 1]
    /\ UNCHANGED <<cfg, last_number, now, gen, data, out, faults, alive, pc>>

NextStartAgain ==
    \/ Next
    \/ StartAgain

SpecStartAgain == InitStartAgain /\ [][NextStartAgain]_vars

\* ============================================================== claims
\* Steps of the generator, told from the two states of a step
\* The step yields a tuple to the caller
YieldStep == nyield' = nyield + 1

\* The step ends the sequence after the size check: break, stop(), return
EndStep == gen # "done" /\ gen' = "done" /\ out'.kind = "stop"

\* Every decode process of the session has its stdout closed and is killed
AllPipesTerminated ==
    \A i \in DOMAIN popen : popen[i].closes >= 1 /\ popen[i].kills >= 1

\* C1: when the frame sequence ends after the size check, the last item the
\* consumer loop of app_main received from it is the all-None tuple.
C1_SentinelDelivered ==
    (pc = "after" /\ gen = "done" /\ out.kind = "stop") => out.item = AllNone

\* C2: a read of the wrong length on an enabled channel is never followed by
\* a yield from these decode processes, the error is printed exactly when the
\* sequence ends after the size check and once, and at that moment the
\* session is stopped with every decode pipe closed and killed.
C2_CorruptionStops ==
    [][/\ YieldStep => \A c \in Enabled : ~popen'[procs'[c]].eof
       /\ faults' = (IF EndStep THEN faults + 1 ELSE faults)
       /\ EndStep => /\ \E c \in Enabled : data'[c].len # ByteSize(c)
                     /\ ready_to_start'
                     /\ \A c \in Enabled : /\ popen'[procs'[c]].closes = 1
                                           /\ popen'[procs'[c]].kills = 1]_vars

\* A sequence ended on a short read: one error, session stopped
C2_Witness ==
    /\ gen = "done"
    /\ out.kind = "stop"
    /\ \E c \in Enabled : data[c].len > 0 /\ data[c].len < ByteSize(c)
    /\ faults = 1
    /\ ready_to_start
    /\ AllPipesTerminated

\* C3: a sequence that ends on zero-length reads (end of stream, no short
\* read) ends with no error reported.
C3_CleanEndOfStream ==
    [][(EndStep /\ \A c \in Enabled : data'[c].len \in {0, ByteSize(c)})
          => faults' = faults]_vars

\* C4: stop() is idempotent: before start() and on an already stopped
\* session it changes nothing, and whoever calls it and however often, every
\* decode process spawned has its stdout closed and is killed exactly once
\* when the session is stopped, and never more than once.
C4_StopIdempotent ==
    /\ [](\A i \in DOMAIN popen :
            /\ popen[i].closes <= 1
            /\ popen[i].kills = popen[i].closes
            /\ ready_to_start => popen[i].closes = 1
            /\ (~ready_to_start /\ \E c \in Channels : procs[c] = i)
                  => popen[i].closes = 0)
    /\ [][(ready_to_start /\ (CallStop \/ Del))
             => UNCHANGED <<cfg, ready_to_start, procs, start_time, current_frame,
                            popen, now, gen, data, out, nyield, faults, starts, pc,
                            app, last_number>>]_vars

\* The reader stopped the session itself, then __del__ stopped it again
C4_Witness ==
    /\ ~alive
    /\ gen = "done"
    /\ out.kind = "stop"
    /\ Enabled # {}
    /\ ready_to_start
    /\ \A i \in DOMAIN popen : popen[i].closes = 1 /\ popen[i].kills = 1

C6_NotBeforeNominalTime ==
    [][(realtime_wait /\ YieldStep) =>
          now' >= NextFrameTime(start_time, current_frame' - 1, frame_rate)]_vars

\* A frame after the first, delivered exactly at its nominal time
C6_Witness ==
    /\ realtime_wait
    /\ out.kind = "yield"
    /\ Enabled # {}
    /\ current_frame >= 2
    /\ now = NextFrameTime(start_time, current_frame - 1, frame_rate)

CatchingUp ==
    /\ realtime_wait
    /\ \/ gen = "skipping"
       \/ /\ gen \in {"created", "suspended"}
          /\ now > NextFrameTime(start_time, current_frame, frame_rate)

\* C8: a realtime tick that starts late discards frames until the clock is
\* no later than the next target; the frame j it delivers is the latest one
\* whose target time has passed, it is a frame no earlier read returned, and
\* no live pipe ever moves backwards.
C8_CatchUp ==
    [][/\ (CatchingUp /\ YieldStep) =>
             /\ NextFrameTime(start_time, current_frame' - 1, frame_rate) < now'
             /\ now' <= NextFrameTime(start_time, current_frame', frame_rate)
             /\ \A c \in Enabled : /\ out'.item[c] = current_frame' - 1
                                   /\ out'.item[c] >= popen[procs[c]].pos
       /\ (CatchingUp /\ gen' = "skipping") =>
             now' > NextFrameTime(start_time, current_frame', frame_rate)
       /\ \A i \in DOMAIN popen :
             popen'[i].closes = 0 => popen'[i].pos >= popen[i].pos]_vars

\* The first tuple of a run is frame 2: frames 0 and 1 were dropped
C8_Witness ==
    /\ realtime_wait
    /\ out.kind = "yield"
    /\ nyield = 1
    /\ current_frame >= 3
    /\ Enabled # {}
    /\ \A c \in Enabled : out.item[c] = current_frame - 1

\* C9: in non-realtime mode a tick reads one frame from every enabled pipe
\* and never enters the catch-up loop or sleeps; the k-th tuple of a run is
\* frame k and the counter is k at that yield.
C9_NonRealtime ==
    [][~realtime_wait =>
          /\ gen' # "skipping"
          /\ (current_frame' # current_frame /\ starts' = starts)
                => current_frame' = current_frame + 1
          /\ YieldStep =>
                /\ current_frame' = current_frame + 1
                /\ current_frame' = nyield'
                /\ now' - now <= MaxReadDelay
                /\ \A c \in Enabled :
                      /\ out'.item[c] = nyield' - 1
                      /\ popen'[procs[c]].pos = popen[procs[c]].pos + 1]_vars

\* Frame 0 delivered as the first tuple with the clock past frame 2's time
C9_Witness ==
    /\ ~realtime_wait
    /\ out.kind = "yield"
    /\ nyield = 1
    /\ Enabled = Channels
    /\ \A c \in Channels : out.item[c] = 0
    /\ now > NextFrameTime(start_time, 2, frame_rate)

\* C10: when app_main has returned or has let an exception out, the session
\* is stopped and every decode pipe is closed and killed.
C10_StopOnEveryExit ==
    pc \in {"returned", "raised"} => (ready_to_start /\ AllPipesTerminated)

\* C11: once __del__ has run stop(), no decode process the session spawned is
\* left running or with its stdout open, also after a start() that failed
\* part-way.
C11_NoOrphan == ~alive => AllPipesTerminated

\* The images present in the tuple being composited
Present == {img \in {app.colour_image, app.depth_image, app.ir_image} : img # NoImage}

\* C12: with two or three images present combine_images returns a canvas of
\* the specified size: all three max(c.w, d.w + i.w) by c.h + max(d.h, i.h);
\* colour and one other max(c.w, o.w) by c.h + o.h; depth and IR d.w + i.w by
\* max(d.h, i.h).
C12_CanvasSize ==
    (pc = "compose" /\ app.combined_image # PendingImage /\ Cardinality(Present) >= 2) =>
        LET c == app.colour_image
            d == app.depth_image
            i == app.ir_image
            o == IF d # NoImage THEN d ELSE i
            r == app.combined_image
        IN  IF Cardinality(Present) = 3
            THEN r.w = Max(c.w, d.w + i.w) /\ r.h = c.h + Max(d.h, i.h)
            ELSE IF c # NoImage
            THEN r.w = Max(c.w, o.w) /\ r.h = c.h + o.h
            ELSE r.w = d.w + i.w /\ r.h = Max(d.h, i.h)

\* C13: the image combine_images returns is 8-bit with 3 channels, has the
\* resolution initialise_video_writer computed from the same tuple, and so
\* is written as exactly W x H x 3 bytes.
C13_FrameMatchesSink ==
    (/\ pc = "compose"
     /\ app.combined_image \notin {PendingImage, RaisedImage}
     /\ app.resolution \notin {PendingResolution, RaisedResolution}) =>
        /\ app.resolution = <<app.combined_image.w, app.combined_image.h>>
        /\ app.combined_image.ch = 3
        /\ app.combined_image.bits = 8
        /\ ImageBytes(app.combined_image) = app.resolution[1] * app.resolution[2] * 3

\* C19: combine_images raises when no image is present, and returns the one
\* image present as it is, same shape and same samples.
C19_ZeroAndOne ==
    (pc = "compose" /\ app.combined_image # PendingImage) =>
        /\ Cardinality(Present) = 0 => app.combined_image = RaisedImage
        /\ Cardinality(Present) = 1 => app.combined_image \in Present

\* A depth image alone came back as the 16-bit image it was
C19_Witness ==
    /\ pc = "compose"
    /\ Present = {app.depth_image}
    /\ app.depth_image.w = 2
    /\ app.combined_image = app.depth_image
    /\ app.combined_image.bits = 16

\* The window of the call is valid: 0 <= lower < upper <= 65535
ValidWindow ==
    /\ 0 <= app.lower_bound
    /\ app.lower_bound < app.upper_bound
    /\ app.upper_bound <= 65535

\* C14: for valid window bounds map_uint16_to_uint8 is monotonic
\* non-decreasing in the sample value, maps every value below lower and lower
\* itself to 0, and every value at or above upper to 255.
C14_Normalise ==
    (pc = "scale" /\ app.mapped # PendingMap /\ ValidWindow) =>
        /\ app.mapped.kind = "image"
        /\ \A j \in 1..2 :
              /\ app.mapped.px[j] \in 0..255
              /\ app.image[j] <= app.lower_bound => app.mapped.px[j] = 0
              /\ app.image[j] >= app.upper_bound => app.mapped.px[j] = 255
        /\ \A j \in 1..2, k \in 1..2 :
              app.image[j] <= app.image[k] => app.mapped.px[j] <= app.mapped.px[k]

\* A sample below the window, and one inside it mapped strictly between 0 and
\* 255
C14_Witness ==
    /\ pc = "scale"
    /\ ValidWindow
    /\ app.mapped.kind = "image"
    /\ app.image[1] < app.lower_bound
    /\ app.lower_bound < app.image[2]
    /\ app.image[2] < app.upper_bound
    /\ app.mapped.px[1] = 0
    /\ app.mapped.px[2] > 0
    /\ app.mapped.px[2] < 255

\* C15: map_uint16_to_uint8 fails with an error and produces no image for
\* every pair of bounds with lower >= upper or a bound outside [0, 65535].
C15_RejectsBounds ==
    (/\ pc = "scale"
     /\ app.mapped # PendingMap
     /\ \/ app.lower_bound >= app.upper_bound
        \/ app.lower_bound \notin 0..65535
        \/ app.upper_bound \notin 0..65535) =>
        /\ app.mapped.kind = "ValueError"
        /\ app.mapped.px = <<>>

\* The window (256, 256), both bounds in range, was rejected
C15_Witness ==
    /\ pc = "scale"
    /\ app.lower_bound = 256
    /\ app.upper_bound = 256
    /\ app.mapped.kind = "ValueError"

\* The caller gave a bound outside [0, 65535], or both bounds with lower >= upper
InvalidSupplied(lower, upper) ==
    \/ lower # None /\ lower \notin 0..65535
    \/ upper # None /\ upper \notin 0..65535
    \/ lower # None /\ upper # None /\ lower >= upper

\* C16: when a depth or IR window the caller supplied is invalid, app_main
\* fails before any decode process is spawned and before any frame is read.
C16_ValidatedBeforeStart ==
    (/\ pc \in {"main", "for", "after", "returned", "raised"}
     /\ \/ InvalidSupplied(app.args[1], app.args[2])
        \/ InvalidSupplied(app.args[3], app.args[4])) =>
        /\ popen = <<>>
        /\ nyield = 0

\* C17: the frame rate resolved from the r_frame_rate string "n/d" is n
\* divided by d, and the scheduler's target for frame i is
\* start_time + i / (n / d).
C17_RateIsQuotient ==
    pc = "api" =>
        LET n == app.r_frame_rate[1]
            d == app.r_frame_rate[2]
        IN  /\ frame_rate * d = n
            /\ start_time # None =>
                  NextFrameTime(start_time, current_frame, frame_rate)
                      = start_time + (current_frame * TicksPerSecond * d) \div n

\* C18: at every yield every enabled decode pipe has had as many frames read
\* from it as the frame counter says and the tuple holds, for each enabled
\* channel, the frame at that one position; a disabled channel has no pipe
\* and None in its slot.
C18_SamePosition ==
    [][YieldStep =>
         /\ \A c \in Enabled :
               /\ popen'[procs'[c]].pos = current_frame'
               /\ out'.item[c] = current_frame' - 1
         /\ \A c \in Channels \ Enabled :
               /\ procs'[c] = 0
               /\ out'.item[c] = None]_vars

\* The second tuple of a session with colour and IR but no depth
C18_Witness ==
    /\ run = <<TRUE, FALSE, TRUE>>
    /\ out.kind = "yield"
    /\ out.item = <<1, None, 1>>
    /\ current_frame = 2
    /\ popen[procs[Colour]].pos = 2
    /\ popen[procs[Ir]].pos = 2

\* read_frame() ran in this step: the only steps that add one to the counter
ReadHappened == current_frame' = current_frame + 1

\* A buffer of an enabled channel in d has not the length of a frame
WrongLength(d) == \E c \in Enabled : d[c].len # ByteSize(c)

\* C20: a read of the wrong length in a tick, whether its buffers are
\* discarded by the catch-up loop or are the ones checked, ends the session in
\* that tick: no later read of the tick has the right length, the tick does
\* not yield, and when it ends the sequence ends with the session stopped and
\* every decode pipe closed and killed.
C20_EveryReadChecked ==
    [][(/\ ReadHappened
        /\ \/ WrongLength(data')
           \/ gen = "skipping" /\ WrongLength(data)) =>
           /\ WrongLength(data')
           /\ ~YieldStep
           /\ \/ gen' = "skipping"
              \/ /\ EndStep
                 /\ ready_to_start'
                 /\ \A c \in Enabled :
                       /\ popen'[procs'[c]].closes >= 1
                       /\ popen'[procs'[c]].kills >= 1]_vars

\* The catch-up loop has discarded a colour buffer of one byte and goes on
C20_Witness ==
    /\ gen = "skipping"
    /\ realtime_wait
    /\ run[Colour]
    /\ data[Colour].len = 1
    /\ popen[procs[Colour]].eof
    /\ popen[procs[Colour]].closes = 0

\* C21: with a consumer that keeps pulling, the sequence has no more tuples
\* than the recording has frames, every tick completes (the catch-up loop
\* exits) and the frame sequence ends with the session Stopped, in realtime
\* and in non-realtime mode.
C21_Finite ==
    /\ [](nyield <= MaxFrames)
    /\ (gen = "skipping") ~> (gen # "skipping")
    /\ <>(gen = "done" /\ ready_to_start)

\* The smallest minimum and the largest maximum of the frames delivered so far
SeenMin == CHOOSE x \in {app.seen[i][1] : i \in DOMAIN app.seen} :
               \A i \in DOMAIN app.seen : x <= app.seen[i][1]

SeenMax == CHOOSE x \in {app.seen[i][2] : i \in DOMAIN app.seen} :
               \A i \in DOMAIN app.seen : x >= app.seen[i][2]

\* C22: on each side the caller left open, the window used for the current
\* frame is the minimum / maximum over all frames delivered so far, the
\* current one included; the tracked minimum never increases and the tracked
\* maximum never decreases; a bound the caller supplied is never overwritten.
C22_RunningWindow ==
    /\ [](pc = "window" /\ app.seen # <<>> =>
            /\ app.calculated_depth_min_max = <<SeenMin, SeenMax>>
            /\ app.visualisation_depth_min_max[1] =
                   IF app.determine_depth_min THEN SeenMin ELSE app.depth_min
            /\ app.visualisation_depth_min_max[2] =
                   IF app.determine_depth_max THEN SeenMax ELSE app.depth_max)
    /\ [][pc = "window" =>
            /\ app'.calculated_depth_min_max[1] <= app.calculated_depth_min_max[1]
            /\ app'.calculated_depth_min_max[2] >= app.calculated_depth_min_max[2]]_vars

\* Fully automatic window after a frame spanning 0..2 and then a frame of
\* samples all 1: the window is still (0, 2)
C22_Witness ==
    /\ pc = "window"
    /\ app.determine_depth_min
    /\ app.determine_depth_max
    /\ app.seen = << <<0, 2>>, <<1, 1>> >>
    /\ app.visualisation_depth_min_max = <<0, 2>>

\* C23: with at least one side of the window determined automatically, the
\* window handed to map_uint16_to_uint8 for every delivered frame satisfies
\* 0 <= lower < upper <= 65535.
C23_WindowValid ==
    (/\ pc = "window"
     /\ app.seen # <<>>
     /\ app.determine_depth_min \/ app.determine_depth_max) =>
        /\ 0 <= app.visualisation_depth_min_max[1]
        /\ app.visualisation_depth_min_max[1] < app.visualisation_depth_min_max[2]
        /\ app.visualisation_depth_min_max[2] <= 65535

\* C24: with an output path, the pass of the loop body over the first
\* delivered tuple of images creates the video writer, every pass that
\* composites a frame writes it once, the writer is never created again, and
\* after the loop the writer is closed.
C24_SinkLifecycle ==
    [][app.save_video =>
         /\ (pc = "body" /\ pc' \in {"for", "raised"} /\ out.item # AllNone) =>
               /\ app'.video_writer = "open"
               /\ pc' = "for" => app'.written = app.written + 1
         /\ (app.video_writer = "open" /\ pc' # "returned") =>
               app'.video_writer = "open"
         /\ (pc = "after" /\ pc' = "returned" /\ app.video_writer = "open") =>
               app'.video_writer = "closed"]_vars

\* C25: start() called while the session is running spawns no decode process
\* and leaves the existing processes, the start time and the frame counter
\* as they are.
C25_StartWhileRunning ==
    [][app'.start_calls = app.start_calls + 1 =>
         /\ popen' = popen
         /\ procs' = procs
         /\ start_time' = start_time
         /\ current_frame' = current_frame
         /\ starts' = starts
         /\ ~ready_to_start']_vars

\* start() was called on a running session, which has yielded its second
\* tuple from the processes of its first start
C25_Witness ==
    /\ app.start_calls = 1
    /\ starts = 1
    /\ ~ready_to_start
    /\ out.kind = "yield"
    /\ current_frame = 2
    /\ Len(popen) = 3

====
